---- MODULE Spec2Model ----
(***************************************************************************)
(* Model of the management console in frontend/src/App.js.                 *)
(*                                                                         *)
(* Specification Spec covers the booking draft controller (the             *)
(* BLSAutomation component): the draft, the stored verdict, the            *)
(* confirmation modal, the shared loading flag and the requests the        *)
(* component has in flight.  SpecFamily covers the family inputs of the    *)
(* draft, SpecSync the stores with the push channel, SpecDuplicate         *)
(* repeated booking_completed pushes, SpecCalls the outcomes of every kind *)
(* of Gateway call.  React state is modelled as it is seen by the          *)
(* handlers: a handler reads the values of the last render and its state   *)
(* setters take effect when the handler has returned, so every synchronous *)
(* handler is one action that reads unprimed and writes primed variables.  *)
(* An await splits a handler in two actions: the one that sends the        *)
(* request and the one that runs when the response (or failure) arrives.   *)
(***************************************************************************)
EXTENDS Integers, Sequences, FiniteSets, Bags, TLC

VARIABLES
    activeTab,            \* App: activeTab
    loading,              \* App: loading (shared flag)
    systemStatus,         \* App: systemStatus
    visaInfo,             \* BLSAutomation: visaInfo (Null until loaded)
    bookingForm,          \* BLSAutomation: bookingForm (the draft)
    categoryValidation,   \* BLSAutomation: categoryValidation (stored verdict)
    showValidationModal,  \* BLSAutomation: showValidationModal
    visaInfoRequests,     \* number of GET /bls/visa-info calls in flight
    validateRequests,     \* bag of POST /bls/validate-category bodies in flight
    bookRequests,         \* bag of POST /bls/book-appointment calls in flight
    submitted,            \* history variable: the run of handleBookAppointment,
                          \* if any, that was the last event, and what it sent
    message,              \* App: message (the notification bar)
    timers,               \* number of pending setTimeout callbacks of showMessage
    orphanVisaInfo,       \* GET /bls/visa-info calls of unmounted instances
    orphanValidate,       \* validate-category calls of unmounted instances
    detached,             \* the states of the sockets of earlier mounts
    ws,                   \* the module-level ws: "pending" before the mount
                          \* effects, "null" or the socket's readyState after
    applicants,           \* App: applicants
    credentials,          \* App: credentials
    bookings,             \* App: bookings
    backend,              \* the collections as the Gateway holds them
    backendStatus,        \* the status as the Gateway holds it
    statusResponses,      \* the answers to GET /bls/status on their way
    fetches,              \* bag of collection GET calls in flight
    statusFetches,        \* number of GET /system/status calls in flight
    form,                 \* ApplicantManagement / CredentialsManagement:
                          \* showForm, the record being edited, formData
    calls,                \* bag of the other calls in flight that set loading
    received              \* history variable: the frame ws.onmessage handled,
                          \* if that was the last event

noteVars == <<message, timers>>
orphanVars == <<orphanVisaInfo, orphanValidate>>
storeVars == <<applicants, credentials, bookings>>
channelVars == <<ws, detached>>
serverVars == <<backend, backendStatus, statusResponses>>
syncVars == <<channelVars, storeVars, serverVars, fetches, statusFetches>>
recordVars == <<form, calls>>

vars == <<activeTab, loading, systemStatus, visaInfo, bookingForm,
          categoryValidation, showValidationModal, visaInfoRequests,
          validateRequests, bookRequests, submitted, noteVars, orphanVars,
          syncVars, recordVars, received>>

(***************************************************************************)
(* Bounds of the model.                                                    *)
(***************************************************************************)
\* requests of the component in flight at one time, of all kinds together
MaxInFlight == 2

\* showMessage timers pending at one time
MaxTimers == 1

\* showMessage timers pending at one time where notifications overlap
MaxNotes == 2

\* GET calls of the App's fetch functions in flight at one time
MaxFetches == 2

\* calls that set loading, other than book-appointment, in flight at one time
MaxCalls == 2

(***************************************************************************)
(* Values.                                                                 *)
(***************************************************************************)
Tabs == {"applicants", "credentials", "automation", "bookings"}

Histories == {"never", "expired_less_than_3_years", "rejected"}

Null == [null |-> TRUE]

\* The rule table served by GET /bls/visa-info: the locations and categories
\* of the running example, a location whose category list is empty and a
\* location that is offered but has no entry in categories_by_location.
RuleTable ==
    [locations |-> <<"Oran", "Algiers", "Annaba", "Blida">>,
     categories_by_location |->
         [l \in {"Oran", "Algiers", "Annaba"} |->
             CASE l = "Oran"    -> <<"ORAN 1", "ORAN 2">>
               [] l = "Algiers" -> <<"ALG 1">>
               [] l = "Annaba"  -> <<>>],
     schengen_history_options |-> <<"never", "rejected">>]

Locations == {"Oran", "Algiers", "Annaba", "Blida"}

Categories == {"ORAN 1", "ORAN 2", "ALG 1"}

Range(s) == {s[i] : i \in DOMAIN s}

\* the collections of the Gateway and the lists they may hold
Collections == {"applicants", "credentials", "bookings"}

Lists == {<<>>, <<"r1">>}

\* booking ids the book-appointment endpoint returns
BookingIds == {"BK-1", "BK-2"}

\* the detail of a failed book-appointment call: no response or no detail,
\* an empty detail, a detail text
BookErrorDetails ==
    {Null, [detail |-> ""], [detail |-> "BLS system is not running"]}

(***************************************************************************)
(* Eligibility Validator (POST /bls/validate-category).  The endpoint is   *)
(* implemented by the backend; it is modelled from section 4.1 of the      *)
(* specification, with the permitted-history sets of the running example.  *)
(***************************************************************************)
PermittedHistories(category) ==
    CASE category = "ORAN 1" -> {"never"}
      [] category = "ORAN 2" -> {"expired_less_than_3_years"}
      [] category = "ALG 1"  -> {"never", "expired_less_than_3_years"}
      [] OTHER               -> {}

\* categories_by_location[location] || []
CategoriesOf(info, location) ==
    IF location \in DOMAIN info.categories_by_location
    THEN info.categories_by_location[location]
    ELSE <<>>

Permits(history, category) == history \in PermittedHistories(category)

RecommendedCategories(table, location, history) ==
    SelectSeq(CategoriesOf(table, location), LAMBDA c : Permits(history, c))

validate(table, location, category, schengenHistory) ==
    IF Permits(schengenHistory, category)
    THEN [is_valid |-> TRUE, message |-> "",
          recommended_categories |-> <<>>]
    ELSE LET rec == RecommendedCategories(table, location, schengenHistory)
         IN  [is_valid |-> FALSE,
              message |-> IF rec = <<>> THEN "not eligible, no category fits"
                                        ELSE "not eligible",
              recommended_categories |-> rec]

(***************************************************************************)
(* parseInt, as applied to the text of the number_of_members input.  A     *)
(* text is a sequence of characters; the result is NaN when no digit       *)
(* follows the optional sign.                                              *)
(***************************************************************************)
NaN == -1000000

DigitChars == {"0", "1", "2", "3", "4", "5", "6", "7", "8", "9"}

DigitVal(c) ==
    CASE c = "0" -> 0 [] c = "1" -> 1 [] c = "2" -> 2 [] c = "3" -> 3
      [] c = "4" -> 4 [] c = "5" -> 5 [] c = "6" -> 6 [] c = "7" -> 7
      [] c = "8" -> 8 [] c = "9" -> 9

RECURSIVE SkipSpace(_)
SkipSpace(s) ==
    IF s # <<>> /\ Head(s) = " " THEN SkipSpace(Tail(s)) ELSE s

\* value of the longest prefix of digits of s, acc being the value so far
RECURSIVE DigitRun(_, _)
DigitRun(s, acc) ==
    IF s # <<>> /\ Head(s) \in DigitChars
    THEN DigitRun(Tail(s), 10 * acc + DigitVal(Head(s)))
    ELSE acc

parseInt(text) ==
    LET t    == SkipSpace(text)
        neg  == t # <<>> /\ Head(t) = "-"
        body == IF t # <<>> /\ Head(t) \in {"-", "+"} THEN Tail(t) ELSE t
    IN  IF body = <<>> \/ Head(body) \notin DigitChars
        THEN NaN
        ELSE IF neg THEN 0 - DigitRun(body, 0) ELSE DigitRun(body, 0)

\* texts the operator leaves in the number_of_members input
MemberInputs ==
    { <<"1", "5">>, <<"0">>, <<"-", "3">>, <<>>, <<"7">> }

(***************************************************************************)
(* Initial state of the components.                                        *)
(***************************************************************************)
InitBookingForm ==
    [location |-> "Oran",
     visa_type |-> "National Visa",
     visa_sub_type |-> "Tourism",
     category |-> "ORAN 1",
     appointment_for |-> "Individual",
     number_of_members |-> 1,
     schengen_visa_history |-> "never",
     has_premium_lounge |-> FALSE,
     family_group_eligible |-> FALSE,
     notes |-> ""]

InitCategoryValidation ==
    [is_valid |-> TRUE, message |-> "", recommended_categories |-> <<>>]

\* useState initialisers of BLSAutomation, run at every mount
InitBLSAutomation ==
    /\ visaInfo = Null
    /\ bookingForm = InitBookingForm
    /\ categoryValidation = InitCategoryValidation
    /\ showValidationModal = FALSE

NoSubmit == [by |-> "none", calls |-> 0, book |-> 0]

NoFrame == [kind |-> "none"]

\* the form of a management component: closed, nothing edited, blank
InitForm == [showForm |-> FALSE, editing |-> "none", formData |-> "blank"]

\* a message text is the sequence of the parts of its template
NoMessage == [text |-> <<"">>, type |-> ""]

Init ==
    /\ activeTab = "applicants"
    /\ loading = FALSE
    /\ systemStatus = [is_running |-> FALSE, current_task |-> Null]
    /\ InitBLSAutomation
    /\ visaInfoRequests = 0
    /\ validateRequests = EmptyBag
    /\ bookRequests = EmptyBag
    /\ submitted = NoSubmit
    /\ message = NoMessage
    /\ timers = 0
    /\ orphanVisaInfo = 0
    /\ orphanValidate = EmptyBag
    /\ ws = "pending"
    /\ detached = {}
    /\ applicants = <<>>
    /\ credentials = <<>>
    /\ bookings = <<>>
    /\ backend = [store \in Collections |-> <<"r1">>]
    /\ backendStatus = [is_running |-> FALSE, current_task |-> Null]
    /\ statusResponses = EmptyBag
    /\ fetches = EmptyBag
    /\ statusFetches = 0
    /\ form = InitForm
    /\ calls = EmptyBag
    /\ received = NoFrame

appVars == <<loading, systemStatus>>
componentVars == <<visaInfo, bookingForm, categoryValidation, showValidationModal>>

Mounted == activeTab = "automation"

\* the form and its buttons are rendered only once visaInfo is loaded
Rendered == Mounted /\ visaInfo # Null

InFlight ==
    visaInfoRequests + BagCardinality(validateRequests)
        + BagCardinality(bookRequests)
        + orphanVisaInfo + BagCardinality(orphanValidate)

CanSend == InFlight < MaxInFlight

(***************************************************************************)
(* App: the notification bar.                                              *)
(***************************************************************************)
CanNotify == timers < MaxTimers

\* showMessage: sets the message and starts a 5 second timer
showMessage(text, type) ==
    /\ message' = [text |-> text, type |-> type]
    /\ timers' = timers + 1

\* the callback of a timer of showMessage
messageTimeout ==
    /\ timers > 0
    /\ timers' = timers - 1
    /\ message' = NoMessage
    /\ submitted' = NoSubmit
    /\ received' = NoFrame
    /\ UNCHANGED <<syncVars, recordVars>>
    /\ UNCHANGED <<activeTab, appVars, componentVars, visaInfoRequests,
                   validateRequests, bookRequests, orphanVars>>

\* the tabs of ApplicantManagement and CredentialsManagement, named like
\* the stores they show
ManagementTabs == {"applicants", "credentials"}

\* the calls in flight when their component is unmounted: the continuation
\* of a save then resets the form of no mounted component
Orphaned(bag) ==
    LET kept == {call \in BagToSet(bag) : ~call.live}
        cut  == {call \in BagToSet(bag) : call.live}
        Dead(call) == [call EXCEPT !.live = FALSE]
    IN  [call \in kept \cup {Dead(c) : c \in cut} |->
            (IF call \in kept THEN bag[call] ELSE 0)
          + (IF [call EXCEPT !.live = TRUE] \in cut
             THEN bag[[call EXCEPT !.live = TRUE]] ELSE 0)]

(***************************************************************************)
(* App: tab navigation.  Leaving the automation tab unmounts               *)
(* BLSAutomation: its state is discarded and the continuations of its      *)
(* requests no longer reach a live component.  Entering it mounts a fresh  *)
(* instance, whose mount effect calls fetchVisaInfo.  A management         *)
(* component that is mounted starts with its initial form.                 *)
(***************************************************************************)
setActiveTab(tab) ==
    /\ tab # activeTab
    /\ activeTab' = tab
    /\ IF tab = "automation"
       THEN /\ CanSend
            /\ visaInfoRequests' = 1
            /\ UNCHANGED <<componentVars, validateRequests, orphanVars>>
       ELSE IF activeTab = "automation"
       THEN /\ visaInfo' = Null
            /\ bookingForm' = InitBookingForm
            /\ categoryValidation' = InitCategoryValidation
            /\ showValidationModal' = FALSE
            /\ visaInfoRequests' = 0
            /\ validateRequests' = EmptyBag
            /\ orphanVisaInfo' = orphanVisaInfo + visaInfoRequests
            /\ orphanValidate' = orphanValidate (+) validateRequests
       ELSE UNCHANGED <<componentVars, visaInfoRequests, validateRequests,
                       orphanVars>>
    /\ form' = InitForm
    /\ calls' = IF activeTab \in ManagementTabs THEN Orphaned(calls) ELSE calls
    /\ submitted' = NoSubmit
    /\ received' = NoFrame
    /\ UNCHANGED syncVars
    /\ UNCHANGED <<appVars, bookRequests, noteVars>>

\* setSystemStatus, called with the data of a status push or status fetch
setSystemStatus(data) ==
    /\ data # systemStatus
    /\ systemStatus' = data
    /\ submitted' = NoSubmit
    /\ received' = NoFrame
    /\ UNCHANGED <<syncVars, recordVars>>
    /\ UNCHANGED <<noteVars, orphanVars>>
    /\ UNCHANGED <<activeTab, loading, componentVars, visaInfoRequests,
                   validateRequests, bookRequests>>

(***************************************************************************)
(* BLSAutomation: rule table.                                              *)
(***************************************************************************)
\* the "Refresh Visa Info" button
fetchVisaInfo ==
    /\ Rendered
    /\ CanSend
    /\ visaInfoRequests' = visaInfoRequests + 1
    /\ submitted' = NoSubmit
    /\ received' = NoFrame
    /\ UNCHANGED <<syncVars, recordVars>>
    /\ UNCHANGED <<noteVars, orphanVars>>
    /\ UNCHANGED <<activeTab, appVars, componentVars, validateRequests,
                   bookRequests>>

fetchVisaInfoResponse ==
    /\ Mounted
    /\ visaInfoRequests > 0
    /\ visaInfoRequests' = visaInfoRequests - 1
    /\ visaInfo' = RuleTable
    /\ submitted' = NoSubmit
    /\ received' = NoFrame
    /\ UNCHANGED <<syncVars, recordVars>>
    /\ UNCHANGED <<noteVars, orphanVars>>
    /\ UNCHANGED <<activeTab, appVars, bookingForm, categoryValidation,
                   showValidationModal, validateRequests, bookRequests>>

fetchVisaInfoError ==
    /\ Mounted
    /\ visaInfoRequests > 0
    /\ CanNotify
    /\ visaInfoRequests' = visaInfoRequests - 1
    /\ showMessage(<<"Error loading visa information">>, "error")
    /\ submitted' = NoSubmit
    /\ received' = NoFrame
    /\ UNCHANGED <<syncVars, recordVars>>
    /\ UNCHANGED <<activeTab, appVars, componentVars, validateRequests,
                   bookRequests, orphanVars>>

\* the visa-info call of an unmounted instance settles: setVisaInfo reaches
\* no component, showMessage is the App's and still acts
orphanVisaInfoResponse ==
    /\ orphanVisaInfo > 0
    /\ orphanVisaInfo' = orphanVisaInfo - 1
    /\ submitted' = NoSubmit
    /\ received' = NoFrame
    /\ UNCHANGED <<syncVars, recordVars>>
    /\ UNCHANGED <<activeTab, appVars, componentVars, visaInfoRequests,
                   validateRequests, bookRequests, orphanValidate, noteVars>>

orphanVisaInfoError ==
    /\ orphanVisaInfo > 0
    /\ CanNotify
    /\ orphanVisaInfo' = orphanVisaInfo - 1
    /\ showMessage(<<"Error loading visa information">>, "error")
    /\ submitted' = NoSubmit
    /\ received' = NoFrame
    /\ UNCHANGED <<syncVars, recordVars>>
    /\ UNCHANGED <<activeTab, appVars, componentVars, visaInfoRequests,
                   validateRequests, bookRequests, orphanValidate>>

(***************************************************************************)
(* BLSAutomation: the booking draft controller.                            *)
(***************************************************************************)
\* validateCategory up to its await: the request body is built from the
\* arguments and from bookingForm as the calling handler sees it
validateCategory(category, schengenHistory) ==
    validateRequests' = validateRequests (+) SetToBag({
        [location |-> bookingForm.location,
         category |-> category,
         schengen_visa_history |-> schengenHistory]})

handleLocationChange(location) ==
    /\ Rendered
    /\ CanSend
    /\ location \in Range(visaInfo.locations)
    /\ location # bookingForm.location
    /\ LET categories  == CategoriesOf(visaInfo, location)
           newCategory == IF categories # <<>> THEN categories[1]
                                               ELSE "ORAN 1"
       IN  /\ bookingForm' = [bookingForm EXCEPT !.location = location,
                                                 !.category = newCategory]
           /\ validateCategory(newCategory, bookingForm.schengen_visa_history)
    /\ submitted' = NoSubmit
    /\ received' = NoFrame
    /\ UNCHANGED <<syncVars, recordVars>>
    /\ UNCHANGED <<noteVars, orphanVars>>
    /\ UNCHANGED <<activeTab, appVars, visaInfo, categoryValidation,
                   showValidationModal, visaInfoRequests, bookRequests>>

\* handleSchengenHistoryChange validating against the history of the last
\* render instead of its argument
handleSchengenHistoryChange_stale(history) ==
    /\ Rendered
    /\ CanSend
    /\ history \in Range(visaInfo.schengen_history_options)
    /\ history # bookingForm.schengen_visa_history
    /\ bookingForm' = [bookingForm EXCEPT !.schengen_visa_history = history]
    /\ validateCategory(bookingForm.category,
                        bookingForm.schengen_visa_history)
    /\ submitted' = NoSubmit
    /\ received' = NoFrame
    /\ UNCHANGED <<syncVars, recordVars>>
    /\ UNCHANGED <<noteVars, orphanVars>>
    /\ UNCHANGED <<activeTab, appVars, visaInfo, categoryValidation,
                   showValidationModal, visaInfoRequests, bookRequests>>

handleSchengenHistoryChange(history) ==
    /\ Rendered
    /\ CanSend
    /\ history \in Range(visaInfo.schengen_history_options)
    /\ history # bookingForm.schengen_visa_history
    /\ bookingForm' = [bookingForm EXCEPT !.schengen_visa_history = history]
    /\ validateCategory(bookingForm.category, history)
    /\ submitted' = NoSubmit
    /\ received' = NoFrame
    /\ UNCHANGED <<syncVars, recordVars>>
    /\ UNCHANGED <<noteVars, orphanVars>>
    /\ UNCHANGED <<activeTab, appVars, visaInfo, categoryValidation,
                   showValidationModal, visaInfoRequests, bookRequests>>

\* the options of the category select are the current location's list
handleCategoryChange(category) ==
    /\ Rendered
    /\ CanSend
    /\ category \in Range(CategoriesOf(visaInfo, bookingForm.location))
    /\ category # bookingForm.category
    /\ bookingForm' = [bookingForm EXCEPT !.category = category]
    /\ validateCategory(category, bookingForm.schengen_visa_history)
    /\ submitted' = NoSubmit
    /\ received' = NoFrame
    /\ UNCHANGED <<syncVars, recordVars>>
    /\ UNCHANGED <<noteVars, orphanVars>>
    /\ UNCHANGED <<activeTab, appVars, visaInfo, categoryValidation,
                   showValidationModal, visaInfoRequests, bookRequests>>

\* what validateCategory does with a verdict besides storing it
notifyVerdict(data) ==
    IF ~data.is_valid
    THEN CanNotify /\ showMessage(<<data.message>>, "error")
    ELSE UNCHANGED noteVars

\* a continuation that keeps the verdict it holds when the new one is valid
validateCategoryResponse_invalidOnly(request) ==
    /\ Mounted
    /\ BagIn(request, validateRequests)
    /\ validateRequests' = validateRequests (-) SetToBag({request})
    /\ LET data == validate(RuleTable, request.location, request.category,
                            request.schengen_visa_history)
       IN  /\ categoryValidation' = IF data.is_valid THEN categoryValidation
                                                     ELSE data
           /\ notifyVerdict(data)
    /\ submitted' = NoSubmit
    /\ received' = NoFrame
    /\ UNCHANGED <<syncVars, recordVars>>
    /\ UNCHANGED orphanVars
    /\ UNCHANGED <<activeTab, appVars, visaInfo, bookingForm,
                   showValidationModal, visaInfoRequests, bookRequests>>

\* validateCategory after its await, the call having succeeded
validateCategoryResponse(request) ==
    /\ Mounted
    /\ BagIn(request, validateRequests)
    /\ validateRequests' = validateRequests (-) SetToBag({request})
    /\ LET data == validate(RuleTable, request.location, request.category,
                            request.schengen_visa_history)
       IN  /\ categoryValidation' = data
           /\ notifyVerdict(data)
    /\ submitted' = NoSubmit
    /\ received' = NoFrame
    /\ UNCHANGED <<syncVars, recordVars>>
    /\ UNCHANGED orphanVars
    /\ UNCHANGED <<activeTab, appVars, visaInfo, bookingForm,
                   showValidationModal, visaInfoRequests, bookRequests>>

\* validateCategory after its await, the call having failed
validateCategoryError(request) ==
    /\ Mounted
    /\ BagIn(request, validateRequests)
    /\ validateRequests' = validateRequests (-) SetToBag({request})
    /\ submitted' = NoSubmit
    /\ received' = NoFrame
    /\ UNCHANGED <<syncVars, recordVars>>
    /\ UNCHANGED <<noteVars, orphanVars>>
    /\ UNCHANGED <<activeTab, appVars, componentVars, visaInfoRequests,
                   bookRequests>>

\* the validate-category call of an unmounted instance settles
orphanValidateResponse(request) ==
    /\ BagIn(request, orphanValidate)
    /\ orphanValidate' = orphanValidate (-) SetToBag({request})
    /\ notifyVerdict(validate(RuleTable, request.location, request.category,
                              request.schengen_visa_history))
    /\ submitted' = NoSubmit
    /\ received' = NoFrame
    /\ UNCHANGED <<syncVars, recordVars>>
    /\ UNCHANGED <<activeTab, appVars, componentVars, visaInfoRequests,
                   validateRequests, bookRequests, orphanVisaInfo>>

orphanValidateError(request) ==
    /\ BagIn(request, orphanValidate)
    /\ orphanValidate' = orphanValidate (-) SetToBag({request})
    /\ submitted' = NoSubmit
    /\ received' = NoFrame
    /\ UNCHANGED <<syncVars, recordVars>>
    /\ UNCHANGED <<activeTab, appVars, componentVars, visaInfoRequests,
                   validateRequests, bookRequests, orphanVisaInfo, noteVars>>

\* the appointment_for select
setAppointmentFor(value) ==
    /\ Rendered
    /\ value \in {"Individual", "Family"}
    /\ value # bookingForm.appointment_for
    /\ bookingForm' = [bookingForm EXCEPT !.appointment_for = value]
    /\ submitted' = NoSubmit
    /\ received' = NoFrame
    /\ UNCHANGED <<syncVars, recordVars>>
    /\ UNCHANGED <<noteVars, orphanVars>>
    /\ UNCHANGED <<activeTab, appVars, visaInfo, categoryValidation,
                   showValidationModal, visaInfoRequests, validateRequests,
                   bookRequests>>

\* the number_of_members input, rendered for a Family appointment
setNumberOfMembers(text) ==
    /\ Rendered
    /\ bookingForm.appointment_for = "Family"
    /\ parseInt(text) # bookingForm.number_of_members
    /\ bookingForm' = [bookingForm EXCEPT !.number_of_members = parseInt(text)]
    /\ submitted' = NoSubmit
    /\ received' = NoFrame
    /\ UNCHANGED <<syncVars, recordVars>>
    /\ UNCHANGED <<noteVars, orphanVars>>
    /\ UNCHANGED <<activeTab, appVars, visaInfo, categoryValidation,
                   showValidationModal, visaInfoRequests, validateRequests,
                   bookRequests>>

\* handleBookAppointment without its check of the stored verdict
handleBookAppointment_unchecked(modal) ==
    /\ showValidationModal' = modal
    /\ loading' = TRUE
    /\ bookRequests' = bookRequests (+) SetToBag({[body |-> bookingForm]})

\* handleBookAppointment up to its await.  modal is the value the caller
\* has given showValidationModal in the same event before the call.
handleBookAppointment(modal) ==
    IF ~categoryValidation.is_valid
    THEN /\ showValidationModal' = TRUE
         /\ UNCHANGED <<loading, bookRequests>>
    ELSE /\ showValidationModal' = modal
         /\ loading' = TRUE
         /\ bookRequests' = bookRequests (+) SetToBag({[body |-> bookingForm]})

\* constraint validation of the form: the number input has min 1 and max 10
\* and is not required
FormValid ==
    bookingForm.appointment_for = "Family" =>
        \/ bookingForm.number_of_members = NaN
        \/ bookingForm.number_of_members \in 1..10

\* a book call may be sent when the model's bound on requests allows it
CanBook == categoryValidation.is_valid => CanSend

\* what one event has sent: book-appointment calls, and calls of any kind
BookSent == BagCardinality(bookRequests') - BagCardinality(bookRequests)

CallsSent ==
    BookSent + (BagCardinality(validateRequests')
                    - BagCardinality(validateRequests))
             + (visaInfoRequests' - visaInfoRequests)

\* systemStatus.is_running as the submit button's disabled attribute reads it
IsRunning == "is_running" \in DOMAIN systemStatus /\ systemStatus.is_running

\* the form's submit button
SubmitForm ==
    /\ Rendered
    /\ ~loading
    /\ IsRunning
    /\ FormValid
    /\ CanBook
    /\ handleBookAppointment(showValidationModal)
    /\ UNCHANGED <<activeTab, systemStatus, visaInfo, bookingForm,
                   categoryValidation, visaInfoRequests, validateRequests>>
    /\ submitted' = [by |-> "form", calls |-> CallsSent, book |-> BookSent]
    /\ received' = NoFrame
    /\ UNCHANGED <<syncVars, recordVars>>
    /\ UNCHANGED <<noteVars, orphanVars>>

\* the modal's "Proceed Anyway" button
ProceedAnyway ==
    /\ Rendered
    /\ showValidationModal
    /\ CanBook
    /\ handleBookAppointment(FALSE)
    /\ UNCHANGED <<activeTab, systemStatus, visaInfo, bookingForm,
                   categoryValidation, visaInfoRequests, validateRequests>>
    /\ submitted' = [by |-> "proceed", calls |-> CallsSent, book |-> BookSent]
    /\ received' = NoFrame
    /\ UNCHANGED <<syncVars, recordVars>>
    /\ UNCHANGED <<noteVars, orphanVars>>

\* the modal's "Review Selection" button
ReviewSelection ==
    /\ Rendered
    /\ showValidationModal
    /\ showValidationModal' = FALSE
    /\ submitted' = NoSubmit
    /\ received' = NoFrame
    /\ UNCHANGED <<syncVars, recordVars>>
    /\ UNCHANGED <<noteVars, orphanVars>>
    /\ UNCHANGED <<activeTab, appVars, visaInfo, bookingForm,
                   categoryValidation, visaInfoRequests, validateRequests,
                   bookRequests>>

\* the finally block of a handler that set loading
finallyLoaded == loading' = FALSE

\* a continuation that also reloads the bookings
handleBookAppointmentResponse_refetch(request, id) ==
    /\ BagIn(request, bookRequests)
    /\ CanNotify
    /\ bookRequests' = bookRequests (-) SetToBag({request})
    /\ showMessage(<<"Appointment booking completed! ID: ", id>>, "success")
    /\ loading' = FALSE
    /\ fetches' = fetches (+) SetToBag({
           [store |-> "bookings", served |-> FALSE, data |-> <<>>]})
    /\ submitted' = NoSubmit
    /\ received' = NoFrame
    /\ UNCHANGED <<activeTab, systemStatus, componentVars, visaInfoRequests,
                   validateRequests, orphanVars, recordVars, channelVars, storeVars,
                   serverVars, statusFetches>>

\* handleBookAppointment after its await, the call having succeeded with
\* response.data = [booking_id |-> id]
handleBookAppointmentResponse(request, id) ==
    /\ BagIn(request, bookRequests)
    /\ CanNotify
    /\ bookRequests' = bookRequests (-) SetToBag({request})
    /\ showMessage(<<"Appointment booking completed! ID: ", id>>, "success")
    /\ finallyLoaded
    /\ submitted' = NoSubmit
    /\ received' = NoFrame
    /\ UNCHANGED <<syncVars, recordVars>>
    /\ UNCHANGED <<activeTab, systemStatus, componentVars, visaInfoRequests,
                   validateRequests, orphanVars>>

\* error.response?.data?.detail || 'Error booking appointment'
bookErrorText(detail) ==
    IF detail = Null \/ detail.detail = ""
    THEN <<"Error booking appointment">>
    ELSE <<detail.detail>>

\* handleBookAppointment after its await, the call having failed
handleBookAppointmentError(request, detail) ==
    /\ BagIn(request, bookRequests)
    /\ CanNotify
    /\ bookRequests' = bookRequests (-) SetToBag({request})
    /\ showMessage(bookErrorText(detail), "error")
    /\ finallyLoaded
    /\ submitted' = NoSubmit
    /\ received' = NoFrame
    /\ UNCHANGED <<syncVars, recordVars>>
    /\ UNCHANGED <<activeTab, systemStatus, componentVars, visaInfoRequests,
                   validateRequests, orphanVars>>

(***************************************************************************)
(* App: the collection stores and the live sync core.                      *)
(***************************************************************************)
\* everything the sync core and the fetch functions never write
draftVars == <<activeTab, loading, componentVars, visaInfoRequests,
               validateRequests, bookRequests, orphanVars, recordVars>>

Undefined == [undefined |-> TRUE]

\* systemStatus.is_running of undefined throws while App renders: React
\* unmounts the tree
Alive == systemStatus # Undefined

CanFetch ==
    BagCardinality(fetches) + statusFetches < MaxFetches

\* fetchApplicants, fetchCredentials, fetchBookings up to their await
fetchRequest(store) == [store |-> store, served |-> FALSE, data |-> <<>>]

fetchApplicants == fetches' = fetches (+) SetToBag({fetchRequest("applicants")})

fetchCredentials == fetches' = fetches (+) SetToBag({fetchRequest("credentials")})

fetchBookings == fetches' = fetches (+) SetToBag({fetchRequest("bookings")})

\* fetchSystemStatus up to its await
fetchSystemStatus == statusFetches' = statusFetches + 1

\* the Gateway reads a collection to answer a GET
serveFetch(request) ==
    /\ BagIn(request, fetches)
    /\ ~request.served
    /\ fetches' = (fetches (-) SetToBag({request})) (+) SetToBag({
           [request EXCEPT !.served = TRUE, !.data = backend[request.store]]})
    /\ submitted' = NoSubmit
    /\ received' = NoFrame
    /\ UNCHANGED <<draftVars, systemStatus, noteVars, channelVars, storeVars, serverVars,
                   statusFetches>>

\* the collection changes at the Gateway
backendChange(store, list) ==
    /\ backend[store] # list
    /\ backend' = [backend EXCEPT ![store] = list]
    /\ submitted' = NoSubmit
    /\ received' = NoFrame
    /\ UNCHANGED <<draftVars, systemStatus, noteVars, channelVars, storeVars,
                   fetches, statusFetches, backendStatus, statusResponses>>

\* a setter that adds the response to what the store holds
setStore_append(store, data) ==
    /\ applicants' = IF store = "applicants" THEN applicants \o data
                                             ELSE applicants
    /\ credentials' = IF store = "credentials" THEN credentials \o data
                                               ELSE credentials
    /\ bookings' = IF store = "bookings" THEN bookings \o data ELSE bookings

\* the setter of the store a fetch function writes
setStore(store, data) ==
    /\ applicants' = IF store = "applicants" THEN data ELSE applicants
    /\ credentials' = IF store = "credentials" THEN data ELSE credentials
    /\ bookings' = IF store = "bookings" THEN data ELSE bookings

\* a continuation that drops a response while a later call for the same
\* store is in flight
fetchResponse_latestOnly(request) ==
    /\ Alive
    /\ BagIn(request, fetches)
    /\ request.served
    /\ fetches' = fetches (-) SetToBag({request})
    /\ IF \E other \in BagToSet(fetches') : other.store = request.store
       THEN UNCHANGED storeVars
       ELSE setStore(request.store, request.data)
    /\ submitted' = NoSubmit
    /\ received' = NoFrame
    /\ UNCHANGED <<draftVars, systemStatus, noteVars, channelVars, serverVars,
                   statusFetches>>

\* a fetch function after its await, the call having succeeded
fetchResponse(request) ==
    /\ Alive
    /\ BagIn(request, fetches)
    /\ request.served
    /\ fetches' = fetches (-) SetToBag({request})
    /\ setStore(request.store, request.data)
    /\ submitted' = NoSubmit
    /\ received' = NoFrame
    /\ UNCHANGED <<draftVars, systemStatus, noteVars, channelVars, serverVars,
                   statusFetches>>

\* the catch blocks of the fetch functions: fetchApplicants and
\* fetchCredentials notify, fetchBookings only logs
fetchErrorText(store) ==
    IF store = "applicants" THEN <<"Error fetching applicants">>
                            ELSE <<"Error fetching credentials">>

fetchError(request) ==
    /\ Alive
    /\ BagIn(request, fetches)
    /\ fetches' = fetches (-) SetToBag({request})
    /\ IF request.store \in {"applicants", "credentials"}
       THEN CanNotify /\ showMessage(fetchErrorText(request.store), "error")
       ELSE UNCHANGED noteVars
    /\ submitted' = NoSubmit
    /\ received' = NoFrame
    /\ UNCHANGED <<draftVars, systemStatus, channelVars, storeVars, serverVars,
                   statusFetches>>

\* fetchSystemStatus after its await, the call having succeeded
fetchSystemStatusResponse(data) ==
    /\ Alive
    /\ statusFetches > 0
    /\ statusFetches' = statusFetches - 1
    /\ statusResponses' = statusResponses (-) SetToBag({data})
    /\ systemStatus' = data
    /\ submitted' = NoSubmit
    /\ received' = NoFrame
    /\ UNCHANGED <<draftVars, noteVars, channelVars, storeVars, backend,
                   backendStatus, fetches>>

\* fetchSystemStatus after its await, the call having failed: logs only
fetchSystemStatusError ==
    /\ Alive
    /\ statusFetches > BagCardinality(statusResponses)
    /\ statusFetches' = statusFetches - 1
    /\ submitted' = NoSubmit
    /\ received' = NoFrame
    /\ UNCHANGED <<draftVars, systemStatus, noteVars, channelVars, storeVars, serverVars,
                   fetches>>

(***************************************************************************)
(* App: the push channel.  A frame is the text of a push message, given by *)
(* what JSON.parse makes of it.                                            *)
(***************************************************************************)
ApplicantTypes == {"applicant_created", "applicant_updated"}

CredentialTypes == {"credential_created", "credential_updated"}

StatusTypes == {"system_status", "system_started", "system_stopped"}

BookingTypes == {"booking_completed"}

KnownTypes ==
    ApplicantTypes \cup CredentialTypes \cup StatusTypes \cup BookingTypes

\* the data of the status pushes the sample frames carry
StatusPayloads ==
    {[is_running |-> TRUE], [is_running |-> FALSE, current_task |-> Null]}

Frames ==
    {[kind |-> "text"], [kind |-> "null"], [kind |-> "number"],
     [kind |-> "object", value |-> [data |-> [is_running |-> TRUE]]],
     [kind |-> "object", value |-> [type |-> "ping"]],
     [kind |-> "object",
      value |-> [type |-> "ping", data |-> [is_running |-> TRUE]]],
     [kind |-> "object", value |-> [type |-> "system_status"]],
     [kind |-> "object", value |-> [type |-> "booking_completed"]],
     [kind |-> "object",
      value |-> [type |-> "booking_completed", data |-> [id |-> "BK-1"]]]}
    \cup {[kind |-> "object", value |-> [type |-> type]] :
              type \in ApplicantTypes \cup CredentialTypes}
    \cup {[kind |-> "object", value |-> [type |-> type, data |-> data]] :
              type \in StatusTypes, data \in StatusPayloads}

\* JSON.parse(event.data) throws a SyntaxError
ParseThrows(frame) == frame.kind = "text"

\* data.type throws a TypeError: data is null
TypeThrows(frame) == frame.kind = "null"

\* a comparison of data.type that looks only for the property
HasType_any(frame, types) ==
    /\ frame.kind = "object"
    /\ "type" \in DOMAIN frame.value

\* data.type is one of types; it is undefined when the parsed value is a
\* primitive or an object without the property
HasType(frame, types) ==
    /\ frame.kind = "object"
    /\ "type" \in DOMAIN frame.value
    /\ frame.value.type \in types

\* data.data
MessageData(frame) ==
    IF "data" \in DOMAIN frame.value THEN frame.value.data ELSE Undefined

\* the two mount effects of App: the WebSocket is constructed (or the
\* constructor throws and ws stays null), then the four stores are fetched
mountEffects(constructed) ==
    /\ ws = "pending"
    /\ ws' = IF constructed THEN "connecting" ELSE "null"
    /\ fetches' = fetches (+) SetToBag({fetchRequest(store) :
                                           store \in Collections})
    /\ fetchSystemStatus
    /\ submitted' = NoSubmit
    /\ received' = NoFrame
    /\ UNCHANGED <<draftVars, systemStatus, noteVars, storeVars, serverVars,
                   detached>>

onopen ==
    /\ Alive
    /\ ws = "connecting"
    /\ ws' = "open"
    /\ submitted' = NoSubmit
    /\ received' = NoFrame
    /\ UNCHANGED <<draftVars, systemStatus, noteVars, storeVars, serverVars,
                   fetches, statusFetches, detached>>

\* a close handler that opens a new connection
onclose_reconnect ==
    /\ Alive
    /\ ws \in {"connecting", "open"}
    /\ ws' = "connecting"
    /\ submitted' = NoSubmit
    /\ received' = NoFrame
    /\ UNCHANGED <<draftVars, systemStatus, noteVars, storeVars, serverVars,
                   fetches, statusFetches, detached>>

\* ws.onerror and ws.onclose only log
onclose ==
    /\ Alive
    /\ ws \in {"connecting", "open"}
    /\ ws' = "closed"
    /\ submitted' = NoSubmit
    /\ received' = NoFrame
    /\ UNCHANGED <<draftVars, systemStatus, noteVars, storeVars, serverVars,
                   fetches, statusFetches, detached>>

\* a setter that merges data into the status it holds
pushStatus_merge(data) ==
    /\ systemStatus' =
           [key \in DOMAIN systemStatus \cup DOMAIN data |->
               IF key \in DOMAIN data THEN data[key] ELSE systemStatus[key]]
    /\ ws' = IF data = Undefined THEN "closed" ELSE ws
    /\ UNCHANGED detached

\* setSystemStatus(data.data) and the render that follows: with data.data
\* undefined the render throws, the tree is unmounted and the cleanup of
\* the WebSocket effect closes the socket
pushStatus(data) ==
    /\ systemStatus' = data
    /\ ws' = IF data = Undefined THEN "closed" ELSE ws
    /\ UNCHANGED detached

\* a catch block that gives the channel up
catchPushError_close ==
    /\ ws' = "closed"
    /\ UNCHANGED <<systemStatus, noteVars, fetches, detached>>

\* the catch block of ws.onmessage: logs
catchPushError == UNCHANGED <<systemStatus, noteVars, channelVars, fetches>>

\* an applicant branch that reloads both record collections
onApplicantPush_both ==
    /\ CanFetch
    /\ fetches' = fetches (+) SetToBag({fetchRequest("applicants"),
                                        fetchRequest("credentials")})
    /\ UNCHANGED <<systemStatus, noteVars, channelVars>>

\* the branches of ws.onmessage
onApplicantPush ==
    /\ CanFetch
    /\ fetchApplicants
    /\ UNCHANGED <<systemStatus, noteVars, channelVars>>

onCredentialPush ==
    /\ CanFetch
    /\ fetchCredentials
    /\ UNCHANGED <<systemStatus, noteVars, channelVars>>

onStatusPush(frame) ==
    /\ pushStatus(MessageData(frame))
    /\ UNCHANGED <<noteVars, fetches>>

onBookingPush_twice ==
    /\ CanFetch
    /\ CanNotify
    /\ fetches' = fetches (+) SetToBag({fetchRequest("bookings")})
                          (+) SetToBag({fetchRequest("bookings")})
    /\ showMessage(<<"Booking completed successfully!">>, "success")
    /\ UNCHANGED <<systemStatus, channelVars>>

onBookingPush ==
    /\ CanFetch
    /\ CanNotify
    /\ fetchBookings
    /\ showMessage(<<"Booking completed successfully!">>, "success")
    /\ UNCHANGED <<systemStatus, channelVars>>

\* ws.onmessage
onmessage(frame) ==
    /\ Alive
    /\ ws = "open"
    /\ IF ParseThrows(frame) \/ TypeThrows(frame) THEN catchPushError
       ELSE IF HasType(frame, ApplicantTypes) THEN onApplicantPush
       ELSE IF HasType(frame, CredentialTypes) THEN onCredentialPush
       ELSE IF HasType(frame, StatusTypes) THEN onStatusPush(frame)
       ELSE IF HasType(frame, BookingTypes) THEN onBookingPush
       ELSE UNCHANGED <<systemStatus, noteVars, channelVars, fetches>>
    /\ submitted' = NoSubmit
    /\ received' = frame
    /\ UNCHANGED <<draftVars, storeVars, serverVars, statusFetches>>

(***************************************************************************)
(* SpecSync: the stores, the fetch functions and the push channel; of the   *)
(* Gateway's collections the bookings change.                              *)
(***************************************************************************)
NextSync ==
    \/ \E constructed \in BOOLEAN : mountEffects(constructed)
    \/ onopen
    \/ onclose
    \/ \E frame \in Frames : onmessage(frame)
    \/ \E request \in BagToSet(fetches) : serveFetch(request)
    \/ \E request \in BagToSet(fetches) : fetchResponse(request)
    \/ \E request \in BagToSet(fetches) : fetchError(request)
    \/ \E data \in StatusPayloads : fetchSystemStatusResponse(data)
    \/ fetchSystemStatusError
    \/ \E list \in Lists : backendChange("bookings", list)
    \/ messageTimeout

SpecSync == Init /\ [][NextSync]_vars

(***************************************************************************)
(* SpecDuplicate: booking_completed pushes, the same frame any number of   *)
(* times, while the Gateway's collections stay as they are and every call  *)
(* succeeds.                                                               *)
(***************************************************************************)
BookingFrames == {frame \in Frames : HasType(frame, BookingTypes)}

NextDuplicate ==
    \/ mountEffects(TRUE)
    \/ onopen
    \/ \E frame \in BookingFrames : onmessage(frame)
    \/ \E request \in BagToSet(fetches) : serveFetch(request)
    \/ \E request \in BagToSet(fetches) : fetchResponse(request)
    \/ \E data \in StatusPayloads : fetchSystemStatusResponse(data)
    \/ messageTimeout

SpecDuplicate == Init /\ [][NextDuplicate]_vars

(***************************************************************************)
(* The handlers that set loading, other than handleBookAppointment.  A     *)
(* call in flight is [kind, store, id, live]: live says that the component *)
(* that sent it is still mounted.                                          *)
(***************************************************************************)
CanCall == BagCardinality(calls) < MaxCalls

Call(kind, store, id) ==
    [kind |-> kind, store |-> store, id |-> id, live |-> TRUE]

\* what every such handler does up to its await
sendCall(call) ==
    /\ CanCall
    /\ loading' = TRUE
    /\ calls' = calls (+) SetToBag({call})

\* the store the mounted management component shows
StoreOf(tab) == IF tab = "applicants" THEN applicants ELSE credentials

\* what an action of a management component leaves alone
managementFrame ==
    /\ submitted' = NoSubmit
    /\ received' = NoFrame
    /\ UNCHANGED <<activeTab, systemStatus, componentVars, visaInfoRequests,
                   validateRequests, bookRequests, orphanVars, noteVars,
                   syncVars>>

\* the "Add New" button
showAddForm ==
    /\ activeTab \in ManagementTabs
    /\ ~form.showForm
    /\ form' = [form EXCEPT !.showForm = TRUE]
    /\ managementFrame
    /\ UNCHANGED <<loading, calls>>

\* an input of the form
setFormData ==
    /\ activeTab \in ManagementTabs
    /\ form.showForm
    /\ form.formData # "typed"
    /\ form' = [form EXCEPT !.formData = "typed"]
    /\ managementFrame
    /\ UNCHANGED <<loading, calls>>

handleEdit(record) ==
    /\ activeTab \in ManagementTabs
    /\ record \in Range(StoreOf(activeTab))
    /\ form' = [showForm |-> TRUE, editing |-> record, formData |-> record]
    /\ form' # form
    /\ managementFrame
    /\ UNCHANGED <<loading, calls>>

\* the form's Cancel button
resetForm ==
    /\ activeTab \in ManagementTabs
    /\ form.showForm
    /\ form' = InitForm
    /\ managementFrame
    /\ UNCHANGED <<loading, calls>>

\* handleSubmit up to its await: PUT when a record is edited, else POST
handleSubmit ==
    /\ activeTab \in ManagementTabs
    /\ form.showForm
    /\ ~loading
    /\ sendCall(Call("save", activeTab, form.editing))
    /\ managementFrame
    /\ UNCHANGED form

\* handleDelete up to its await, window.confirm having returned true
handleDelete(id) ==
    /\ activeTab \in ManagementTabs
    /\ id \in Range(StoreOf(activeTab))
    /\ sendCall(Call("delete", activeTab, id))
    /\ managementFrame
    /\ UNCHANGED form

handleSetPrimary(id) ==
    /\ activeTab = "credentials"
    /\ id \in Range(credentials)
    /\ sendCall(Call("set-primary", "credentials", id))
    /\ managementFrame
    /\ UNCHANGED form

handleTestCredential(id) ==
    /\ activeTab = "credentials"
    /\ id \in Range(credentials)
    /\ sendCall(Call("test", "credentials", id))
    /\ managementFrame
    /\ UNCHANGED form

\* what an action of BLSAutomation outside the draft leaves alone
automationFrame ==
    /\ submitted' = NoSubmit
    /\ received' = NoFrame
    /\ UNCHANGED <<activeTab, systemStatus, componentVars, visaInfoRequests,
                   validateRequests, bookRequests, orphanVars, noteVars,
                   syncVars, form>>

handleStartSystem ==
    /\ Rendered
    /\ ~loading
    /\ ~IsRunning
    /\ sendCall(Call("start", "none", "none"))
    /\ automationFrame

handleStopSystem ==
    /\ Rendered
    /\ ~loading
    /\ IsRunning
    /\ sendCall(Call("stop", "none", "none"))
    /\ automationFrame

handleSolveCaptcha ==
    /\ Rendered
    /\ ~loading
    /\ sendCall(Call("solve-captcha", "none", "none"))
    /\ automationFrame

\* the notification of a call that succeeded; answer is the text the
\* response carries for a test or a captcha
successText(call, answer) ==
    CASE call.kind = "save" /\ call.store = "applicants" ->
             IF call.id # "none" THEN <<"Applicant updated successfully!">>
                                 ELSE <<"Applicant created successfully!">>
      [] call.kind = "save" /\ call.store = "credentials" ->
             IF call.id # "none" THEN <<"Credential updated successfully!">>
                                 ELSE <<"Credential created successfully!">>
      [] call.kind = "delete" /\ call.store = "applicants" ->
             <<"Applicant deleted successfully!">>
      [] call.kind = "delete" /\ call.store = "credentials" ->
             <<"Credential deleted successfully!">>
      [] call.kind = "set-primary" -> <<"Primary credential updated!">>
      [] call.kind = "test" -> <<"Credential test: ", answer>>
      [] call.kind = "start" -> <<"BLS automation system started!">>
      [] call.kind = "stop" -> <<"BLS automation system stopped!">>
      [] call.kind = "solve-captcha" -> <<"Captcha solved! Confidence: ", answer>>

\* the notification of a call that failed
errorText(call) ==
    CASE call.kind = "save" /\ call.store = "applicants" ->
             <<"Error saving applicant">>
      [] call.kind = "save" /\ call.store = "credentials" ->
             <<"Error saving credential">>
      [] call.kind = "delete" /\ call.store = "applicants" ->
             <<"Error deleting applicant">>
      [] call.kind = "delete" /\ call.store = "credentials" ->
             <<"Error deleting credential">>
      [] call.kind = "set-primary" -> <<"Error updating primary credential">>
      [] call.kind = "test" -> <<"Credential test failed">>
      [] call.kind = "start" -> <<"Error starting system">>
      [] call.kind = "stop" -> <<"Error stopping system">>
      [] call.kind = "solve-captcha" -> <<"Error solving captcha">>

\* onRefresh of a management component, onStatusChange of BLSAutomation
refetchAfter(call) ==
    IF call.store = "applicants"
    THEN CanFetch /\ fetchApplicants /\ UNCHANGED statusFetches
    ELSE IF call.store = "credentials"
    THEN CanFetch /\ fetchCredentials /\ UNCHANGED statusFetches
    ELSE IF call.kind \in {"start", "stop"}
    THEN CanFetch /\ fetchSystemStatus /\ UNCHANGED fetches
    ELSE UNCHANGED <<fetches, statusFetches>>

\* a handler that takes a deleted record out of its store itself
callResponse_optimistic(call, answer) ==
    /\ BagIn(call, calls)
    /\ CanNotify
    /\ calls' = calls (-) SetToBag({call})
    /\ showMessage(successText(call, answer), "success")
    /\ IF call.kind = "delete"
       THEN /\ setStore(call.store,
                        SelectSeq(IF call.store = "applicants"
                                  THEN applicants ELSE credentials,
                                  LAMBDA record : record # call.id))
            /\ UNCHANGED <<fetches, statusFetches>>
       ELSE refetchAfter(call) /\ UNCHANGED storeVars
    /\ form' = IF call.kind = "save" /\ call.live THEN InitForm ELSE form
    /\ finallyLoaded
    /\ submitted' = NoSubmit
    /\ received' = NoFrame
    /\ UNCHANGED <<activeTab, systemStatus, componentVars, visaInfoRequests,
                   validateRequests, bookRequests, orphanVars, channelVars, serverVars>>

\* a handler after its await, the call having succeeded
callResponse(call, answer) ==
    /\ BagIn(call, calls)
    /\ CanNotify
    /\ calls' = calls (-) SetToBag({call})
    /\ showMessage(successText(call, answer), "success")
    /\ refetchAfter(call)
    /\ form' = IF call.kind = "save" /\ call.live THEN InitForm ELSE form
    /\ finallyLoaded
    /\ submitted' = NoSubmit
    /\ received' = NoFrame
    /\ UNCHANGED <<activeTab, systemStatus, componentVars, visaInfoRequests,
                   validateRequests, bookRequests, orphanVars, channelVars, storeVars,
                   serverVars>>

\* a catch block that sends the call again
callError_retry(call) ==
    /\ BagIn(call, calls)
    /\ CanNotify
    /\ showMessage(errorText(call), "error")
    /\ submitted' = NoSubmit
    /\ received' = NoFrame
    /\ UNCHANGED <<activeTab, appVars, componentVars, visaInfoRequests,
                   validateRequests, bookRequests, orphanVars, syncVars,
                   recordVars>>

\* a catch block that closes the form
callError_reset(call) ==
    /\ BagIn(call, calls)
    /\ CanNotify
    /\ calls' = calls (-) SetToBag({call})
    /\ showMessage(errorText(call), "error")
    /\ finallyLoaded
    /\ form' = InitForm
    /\ submitted' = NoSubmit
    /\ received' = NoFrame
    /\ UNCHANGED <<activeTab, systemStatus, componentVars, visaInfoRequests,
                   validateRequests, bookRequests, orphanVars, syncVars>>

\* a handler after its await, the call having failed
callError(call) ==
    /\ BagIn(call, calls)
    /\ CanNotify
    /\ calls' = calls (-) SetToBag({call})
    /\ showMessage(errorText(call), "error")
    /\ finallyLoaded
    /\ submitted' = NoSubmit
    /\ received' = NoFrame
    /\ UNCHANGED <<activeTab, systemStatus, componentVars, visaInfoRequests,
                   validateRequests, bookRequests, orphanVars, syncVars, form>>

\* the "Refresh Status" button of BLSAutomation
refreshStatus ==
    /\ Rendered
    /\ CanFetch
    /\ fetchSystemStatus
    /\ submitted' = NoSubmit
    /\ received' = NoFrame
    /\ UNCHANGED <<draftVars, systemStatus, noteVars, channelVars, storeVars, serverVars,
                   fetches>>

\* the Refresh button of BookingHistory
refreshBookings ==
    /\ activeTab = "bookings"
    /\ CanFetch
    /\ fetchBookings
    /\ submitted' = NoSubmit
    /\ received' = NoFrame
    /\ UNCHANGED <<draftVars, systemStatus, noteVars, channelVars, storeVars, serverVars,
                   statusFetches>>

\* the texts a test or a captcha response carries
Answers == {"ok"}

(***************************************************************************)
(* SpecCalls: every kind of Gateway call with both of its outcomes, the    *)
(* operator acting while no call is in flight.  Of the draft only the      *)
(* Schengen history is edited.                                             *)
(***************************************************************************)
Idle ==
    /\ InFlight = 0
    /\ calls = EmptyBag
    /\ fetches = EmptyBag
    /\ statusFetches = 0

\* what the operator does
OperatorCalls ==
    \/ \E tab \in Tabs : setActiveTab(tab)
    \/ \E history \in Histories : handleSchengenHistoryChange(history)
    \/ SubmitForm
    \/ handleStartSystem
    \/ handleStopSystem
    \/ handleSolveCaptcha
    \/ showAddForm
    \/ setFormData
    \/ resetForm
    \/ \E record \in Range(StoreOf(activeTab)) : handleEdit(record)
    \/ handleSubmit
    \/ \E id \in Range(StoreOf(activeTab)) : handleDelete(id)
    \/ \E id \in Range(credentials) : handleSetPrimary(id)
    \/ \E id \in Range(credentials) : handleTestCredential(id)
    \/ refreshStatus
    \/ refreshBookings

\* what the Gateway's answers and the timers do
NextCalls ==
    \/ Idle /\ OperatorCalls
    \/ fetchVisaInfoResponse
    \/ fetchVisaInfoError
    \/ \E request \in BagToSet(validateRequests) :
           validateCategoryResponse(request)
    \/ \E request \in BagToSet(validateRequests) :
           validateCategoryError(request)
    \/ \E request \in BagToSet(bookRequests), id \in BookingIds :
           handleBookAppointmentResponse(request, id)
    \/ \E request \in BagToSet(bookRequests), detail \in BookErrorDetails :
           handleBookAppointmentError(request, detail)
    \/ \E call \in BagToSet(calls), answer \in Answers :
           callResponse(call, answer)
    \/ \E call \in BagToSet(calls) : callError(call)
    \/ \E request \in BagToSet(fetches) : serveFetch(request)
    \/ \E request \in BagToSet(fetches) : fetchResponse(request)
    \/ \E request \in BagToSet(fetches) : fetchError(request)
    \/ \E data \in StatusPayloads : fetchSystemStatusResponse(data)
    \/ fetchSystemStatusError
    \/ messageTimeout

SpecCalls == Init /\ [][NextCalls]_vars

(***************************************************************************)
(* SpecValidator: the validator applied to sample requests.  The table,    *)
(* the triple and the verdict that validateCategory stores are kept in     *)
(* visaInfo, bookingForm and categoryValidation.                           *)
(***************************************************************************)
\* a table in which one location lists three categories
WideTable ==
    [RuleTable EXCEPT
        !.categories_by_location["Oran"] = <<"ORAN 2", "ALG 1", "ORAN 1">>]

Tables == {RuleTable, WideTable}

\* a continuation that keeps only the first recommendation
validateSample_firstOnly(table, location, category, history) ==
    /\ visaInfo' = table
    /\ bookingForm' = [bookingForm EXCEPT !.location = location,
                                          !.category = category,
                                          !.schengen_visa_history = history]
    /\ LET data == validate(table, location, category, history)
       IN  /\ categoryValidation' =
                  [data EXCEPT !.recommended_categories =
                      IF Len(data.recommended_categories) > 1
                      THEN <<data.recommended_categories[1]>>
                      ELSE data.recommended_categories]
           /\ notifyVerdict(data)
    /\ submitted' = NoSubmit
    /\ received' = NoFrame
    /\ UNCHANGED <<activeTab, appVars, showValidationModal, visaInfoRequests,
                   validateRequests, bookRequests, orphanVars, syncVars,
                   recordVars>>

\* validateCategory from its POST to setCategoryValidation and showMessage,
\* for a request with the given triple answered from the given table
validateSample(table, location, category, history) ==
    /\ visaInfo' = table
    /\ bookingForm' = [bookingForm EXCEPT !.location = location,
                                          !.category = category,
                                          !.schengen_visa_history = history]
    /\ LET data == validate(table, location, category, history)
       IN  /\ categoryValidation' = data
           /\ notifyVerdict(data)
    /\ submitted' = NoSubmit
    /\ received' = NoFrame
    /\ UNCHANGED <<activeTab, appVars, showValidationModal, visaInfoRequests,
                   validateRequests, bookRequests, orphanVars, syncVars,
                   recordVars>>

NextValidator ==
    \/ \E table \in Tables, location \in Locations, category \in Categories,
          history \in Histories :
           validateSample(table, location, category, history)
    \/ messageTimeout

SpecValidator == Init /\ [][NextValidator]_vars

(***************************************************************************)
(* SpecLifecycle: App is mounted, torn down and mounted again.             *)
(***************************************************************************)
\* the state a fresh mount of App starts from: the useState initialisers
\* of App and of its components; what was in flight for the instance that
\* was torn down acts on no mounted component
remount ==
    /\ activeTab' = "applicants"
    /\ loading' = FALSE
    /\ systemStatus' = [is_running |-> FALSE, current_task |-> Null]
    /\ visaInfo' = Null
    /\ bookingForm' = InitBookingForm
    /\ categoryValidation' = InitCategoryValidation
    /\ showValidationModal' = FALSE
    /\ visaInfoRequests' = 0
    /\ validateRequests' = EmptyBag
    /\ bookRequests' = EmptyBag
    /\ message' = NoMessage
    /\ timers' = 0
    /\ orphanVisaInfo' = 0
    /\ orphanValidate' = EmptyBag
    /\ applicants' = <<>>
    /\ credentials' = <<>>
    /\ bookings' = <<>>
    /\ fetches' = EmptyBag
    /\ statusFetches' = 0
    /\ form' = InitForm
    /\ calls' = EmptyBag
    /\ statusResponses' = EmptyBag

\* a cleanup that leaves the socket as it is
teardown_leak ==
    /\ Alive
    /\ ws # "pending"
    /\ detached' = IF ws = "null" THEN detached ELSE detached \cup {ws}
    /\ ws' = "pending"
    /\ remount
    /\ submitted' = NoSubmit
    /\ received' = NoFrame
    /\ UNCHANGED <<backend, backendStatus>>

\* App is unmounted: the cleanup of the WebSocket effect closes the socket
\* that ws refers to, if there is one
teardown ==
    /\ Alive
    /\ ws # "pending"
    /\ detached' = IF ws = "null" THEN detached
                                  ELSE detached \cup {"closed"}
    /\ ws' = "pending"
    /\ remount
    /\ submitted' = NoSubmit
    /\ received' = NoFrame
    /\ UNCHANGED <<backend, backendStatus>>

NextLifecycle ==
    \/ \E constructed \in BOOLEAN : mountEffects(constructed)
    \/ onopen
    \/ onclose
    \/ teardown
    \/ \E frame \in BookingFrames : onmessage(frame)
    \/ \E request \in BagToSet(fetches) : serveFetch(request)
    \/ \E request \in BagToSet(fetches) : fetchResponse(request)
    \/ \E data \in StatusPayloads : fetchSystemStatusResponse(data)
    \/ messageTimeout

SpecLifecycle == Init /\ [][NextLifecycle]_vars

(***************************************************************************)
(* SpecStatus: the status of the Gateway changes while App reads it by GET *)
(* and by push.                                                            *)
(***************************************************************************)
\* the Gateway answers a GET /bls/status with the status it holds
serveStatus ==
    /\ BagCardinality(statusResponses) < statusFetches
    /\ statusResponses' = statusResponses (+) SetToBag({backendStatus})
    /\ submitted' = NoSubmit
    /\ received' = NoFrame
    /\ UNCHANGED <<draftVars, systemStatus, noteVars, channelVars, storeVars,
                   backend, backendStatus, fetches, statusFetches>>

\* a start or a stop takes effect in the Gateway
backendStatusChange(data) ==
    /\ data # backendStatus
    /\ backendStatus' = data
    /\ submitted' = NoSubmit
    /\ received' = NoFrame
    /\ UNCHANGED <<draftVars, systemStatus, noteVars, channelVars, storeVars,
                   backend, statusResponses, fetches, statusFetches>>

\* the push messages that tell the status the Gateway holds
StatusFrames ==
    {frame \in Frames :
        /\ HasType(frame, {"system_status",
                           IF backendStatus.is_running THEN "system_started"
                                                       ELSE "system_stopped"})
        /\ MessageData(frame) = backendStatus}

\* the Gateway changes its status when the channel is open and App holds
\* the status before the change, and pushes the status it holds
NextStatus ==
    \/ mountEffects(TRUE)
    \/ onopen
    \/ serveStatus
    \/ \E data \in BagToSet(statusResponses) : fetchSystemStatusResponse(data)
    \/ /\ ws = "open"
       /\ systemStatus = backendStatus
       /\ \E data \in StatusPayloads : backendStatusChange(data)
    \/ \E frame \in StatusFrames : onmessage(frame)
    \/ \E request \in BagToSet(fetches) : serveFetch(request)
    \/ \E request \in BagToSet(fetches) : fetchResponse(request)

SpecStatus == Init /\ [][NextStatus]_vars

(***************************************************************************)
(* SpecOverlap: the Delete button of a record, which loading does not      *)
(* disable, is pressed while calls are in flight.                          *)
(***************************************************************************)
NextOverlap ==
    \/ mountEffects(TRUE)
    \/ \E request \in BagToSet(fetches) : serveFetch(request)
    \/ \E request \in BagToSet(fetches) : fetchResponse(request)
    \/ \E data \in StatusPayloads : fetchSystemStatusResponse(data)
    \/ \E id \in Range(StoreOf(activeTab)) : handleDelete(id)
    \/ \E call \in BagToSet(calls), answer \in Answers :
           callResponse(call, answer)
    \/ \E call \in BagToSet(calls) : callError(call)
    \/ messageTimeout

SpecOverlap == Init /\ [][NextOverlap]_vars

(***************************************************************************)
(* SpecFields: the draft controller with the inputs of the draft that are  *)
(* not eligibility inputs.                                                 *)
(***************************************************************************)
\* the inputs whose onChange is setBookingForm({...bookingForm, field: v})
DraftFields == {"visa_type", "visa_sub_type", "has_premium_lounge", "notes"}

\* values the operator gives them
FieldValues(field) ==
    CASE field = "visa_type" -> {"National Visa", "Schengen Visa"}
      [] field = "visa_sub_type" -> {"Tourism", "Business"}
      [] field = "has_premium_lounge" -> BOOLEAN
      [] field = "notes" -> {"", "note"}

\* texts the operator leaves in the number_of_members input here
FieldInputs == {<<"7">>, <<>>}

\* an onChange that builds the draft anew instead of spreading it
setBookingField_fresh(field, value) ==
    /\ Rendered
    /\ value # bookingForm[field]
    /\ bookingForm' = [InitBookingForm EXCEPT ![field] = value]
    /\ submitted' = NoSubmit
    /\ received' = NoFrame
    /\ UNCHANGED <<syncVars, recordVars>>
    /\ UNCHANGED <<noteVars, orphanVars>>
    /\ UNCHANGED <<activeTab, appVars, visaInfo, categoryValidation,
                   showValidationModal, visaInfoRequests, validateRequests,
                   bookRequests>>

\* the onChange of the visa type, visa sub-type, premium lounge and notes
\* inputs
setBookingField(field, value) ==
    /\ Rendered
    /\ value # bookingForm[field]
    /\ bookingForm' = [bookingForm EXCEPT ![field] = value]
    /\ submitted' = NoSubmit
    /\ received' = NoFrame
    /\ UNCHANGED <<syncVars, recordVars>>
    /\ UNCHANGED <<noteVars, orphanVars>>
    /\ UNCHANGED <<activeTab, appVars, visaInfo, categoryValidation,
                   showValidationModal, visaInfoRequests, validateRequests,
                   bookRequests>>

NextFields ==
    \/ setActiveTab("automation")
    \/ fetchVisaInfoResponse
    \/ \E location \in {"Oran", "Algiers"} : handleLocationChange(location)
    \/ \E history \in Histories : handleSchengenHistoryChange(history)
    \/ \E request \in BagToSet(validateRequests) :
           validateCategoryResponse(request)
    \/ \E field \in DraftFields :
           \E value \in FieldValues(field) : setBookingField(field, value)
    \/ \E value \in {"Individual", "Family"} : setAppointmentFor(value)
    \/ \E text \in FieldInputs : setNumberOfMembers(text)
    \/ messageTimeout

SpecFields == Init /\ [][NextFields]_vars

(***************************************************************************)
(* SpecTimers: the fetches of the mount fail one after the other, so that  *)
(* a notification is shown while the timer of an earlier one is pending.   *)
(***************************************************************************)
\* fetchApplicants, fetchCredentials, fetchBookings after their await, the
\* call having failed, with up to MaxNotes timers pending
fetchErrorOverlap(request) ==
    /\ Alive
    /\ BagIn(request, fetches)
    /\ fetches' = fetches (-) SetToBag({request})
    /\ IF request.store \in {"applicants", "credentials"}
       THEN /\ timers < MaxNotes
            /\ showMessage(fetchErrorText(request.store), "error")
       ELSE UNCHANGED noteVars
    /\ submitted' = NoSubmit
    /\ received' = NoFrame
    /\ UNCHANGED <<draftVars, systemStatus, channelVars, storeVars, serverVars,
                   statusFetches>>

NextTimers ==
    \/ mountEffects(TRUE)
    \/ onopen
    \/ \E request \in BagToSet(fetches) : serveFetch(request)
    \/ \E request \in BagToSet(fetches) : fetchResponse(request)
    \/ \E request \in BagToSet(fetches) : fetchErrorOverlap(request)
    \/ \E data \in StatusPayloads : fetchSystemStatusResponse(data)
    \/ messageTimeout

SpecTimers == Init /\ [][NextTimers]_vars

(***************************************************************************)
(* Spec: the draft controller with its eligibility inputs.                 *)
(***************************************************************************)
Next ==
    \/ \E tab \in Tabs : setActiveTab(tab)
    \/ \E b \in BOOLEAN : setSystemStatus([is_running |-> b])
    \/ fetchVisaInfo
    \/ fetchVisaInfoResponse
    \/ fetchVisaInfoError
    \/ \E location \in Locations : handleLocationChange(location)
    \/ \E history \in Histories : handleSchengenHistoryChange(history)
    \/ \E category \in Categories : handleCategoryChange(category)
    \/ \E request \in BagToSet(validateRequests) :
           validateCategoryResponse(request)
    \/ \E request \in BagToSet(validateRequests) :
           validateCategoryError(request)
    \/ SubmitForm
    \/ ProceedAnyway
    \/ ReviewSelection
    \/ \E request \in BagToSet(bookRequests), id \in BookingIds :
           handleBookAppointmentResponse(request, id)
    \/ \E request \in BagToSet(bookRequests), detail \in BookErrorDetails :
           handleBookAppointmentError(request, detail)
    \/ orphanVisaInfoResponse
    \/ orphanVisaInfoError
    \/ \E request \in BagToSet(orphanValidate) :
           orphanValidateResponse(request)
    \/ \E request \in BagToSet(orphanValidate) :
           orphanValidateError(request)
    \/ messageTimeout

Spec == Init /\ [][Next]_vars

(***************************************************************************)
(* SpecFamily: the draft controller with the appointment_for and           *)
(* number_of_members inputs; of the eligibility inputs only the Schengen   *)
(* history is edited.                                                      *)
(***************************************************************************)
NextFamily ==
    \/ setActiveTab("automation")
    \/ setSystemStatus([is_running |-> TRUE])
    \/ fetchVisaInfoResponse
    \/ \E value \in {"Individual", "Family"} : setAppointmentFor(value)
    \/ \E text \in MemberInputs : setNumberOfMembers(text)
    \/ \E history \in Histories : handleSchengenHistoryChange(history)
    \/ \E request \in BagToSet(validateRequests) :
           validateCategoryResponse(request)
    \/ SubmitForm
    \/ ProceedAnyway
    \/ ReviewSelection
    \/ \E request \in BagToSet(bookRequests), id \in BookingIds :
           handleBookAppointmentResponse(request, id)
    \/ messageTimeout

SpecFamily == Init /\ [][NextFamily]_vars

(***************************************************************************)
(* Properties of the booking draft controller.                             *)
(***************************************************************************)
\* the validator's verdict for the triple a draft holds
VerdictOf(draft) ==
    validate(RuleTable, draft.location, draft.category,
             draft.schengen_visa_history)

InList(category, location) ==
    category \in Range(CategoriesOf(RuleTable, location))

\* C1: when the operator has chosen "Proceed Anyway" in the confirmation
\* modal, exactly one book-appointment call has been sent by that choice,
\* and it carries the draft as it stands, whatever the stored verdict.
C1_OverrideBooksOnce ==
    submitted.by = "proceed" =>
        /\ submitted.book = 1
        /\ BagIn([body |-> bookingForm], bookRequests)

\* C2: a submission of the form while the stored verdict is invalid sends no
\* call to the Gateway, leaves the loading flag clear and shows the
\* confirmation modal.
C2_InvalidSubmitSendsNothing ==
    (submitted.by = "form" /\ ~categoryValidation.is_valid) =>
        /\ submitted.calls = 0
        /\ submitted.book = 0
        /\ ~loading
        /\ showValidationModal

C2_Witness ==
    /\ submitted.by = "form"
    /\ ~categoryValidation.is_valid
    /\ showValidationModal
    /\ bookRequests = EmptyBag

\* C3: a book-appointment call sent by the form, that is without a confirmed
\* override, carries a draft whose own triple the validator judges valid.
C3_UnconfirmedCallsAreValid ==
    (submitted.by = "form" /\ submitted.book = 1) =>
        VerdictOf(bookingForm).is_valid

\* C4: a change of location leaves the draft with a category of the new
\* location's list, for every location offered.
C4_LocationChangeResetsCategory ==
    [][\A location \in Locations :
           handleLocationChange(location) =>
               bookingForm'.category
                   \in Range(CategoriesOf(visaInfo, location))]_vars

\* C5: whenever the rule table is loaded, the draft's category is in the
\* category list of the draft's location.
C5_CategoryInLocationList ==
    Rendered =>
        bookingForm.category
            \in Range(CategoriesOf(visaInfo, bookingForm.location))

\* C6: a location whose category list is empty is a configuration error and
\* no booking is submitted from a draft of that location.  The component has
\* no state in which to signal the error, so what remains to be observed is
\* that no book-appointment call carries such a draft.
C6_EmptyListBlocksBooking ==
    \A request \in BagToSet(bookRequests) :
        CategoriesOf(RuleTable, request.body.location) # <<>>

\* C7: every validate-category request in flight carries a location and a
\* category of that location's list.
C7_ValidateRequestsAreMembers ==
    \A request \in BagToSet(validateRequests) :
        InList(request.category, request.location)

\* C8: when no validate-category request is in flight, the stored verdict is
\* the validator's verdict for the triple the draft holds.
C8_VerdictMatchesDraft ==
    (Mounted /\ validateRequests = EmptyBag) =>
        /\ categoryValidation.is_valid = VerdictOf(bookingForm).is_valid
        /\ categoryValidation.recommended_categories
               = VerdictOf(bookingForm).recommended_categories

ValidateBodies ==
    [location : Locations, category : Categories,
     schengen_visa_history : Histories]

\* exactly one request is sent, a validation of category against history
SendsOneValidation(category, history) ==
    /\ \E request \in ValidateBodies :
           /\ request.category = category
           /\ request.schengen_visa_history = history
           /\ validateRequests' = validateRequests (+) SetToBag({request})
    /\ bookRequests' = bookRequests
    /\ visaInfoRequests' = visaInfoRequests

\* C9: a change of the Schengen history stores the history, leaves location
\* and category alone and sends exactly one validation of the draft's
\* category against the new history; a change of category stores it and
\* sends exactly one validation of the new category against the draft's
\* history.
C9_EditsValidateOnce ==
    [][/\ \A history \in Histories :
              handleSchengenHistoryChange(history) =>
                  /\ bookingForm'.schengen_visa_history = history
                  /\ bookingForm'.location = bookingForm.location
                  /\ bookingForm'.category = bookingForm.category
                  /\ SendsOneValidation(bookingForm.category, history)
       /\ \A category \in Categories :
              handleCategoryChange(category) =>
                  /\ bookingForm'.category = category
                  /\ SendsOneValidation(category,
                                        bookingForm.schengen_visa_history)
      ]_vars

C9_Witness ==
    /\ bookingForm.schengen_visa_history = "rejected"
    /\ bookingForm.category = "ORAN 2"
    /\ categoryValidation = InitCategoryValidation
    /\ validateRequests =
           SetToBag({[location |-> "Oran", category |-> "ORAN 2",
                      schengen_visa_history |-> "never"]})
             (+) SetToBag({[location |-> "Oran", category |-> "ORAN 2",
                            schengen_visa_history |-> "rejected"]})

\* C10: a Family draft holds a number_of_members between 1 and 10 after
\* every input, and so does every book-appointment call for a family.
C10_MembersClamped ==
    /\ bookingForm.appointment_for = "Family" =>
           bookingForm.number_of_members \in 1..10
    /\ \A request \in BagToSet(bookRequests) :
           request.body.appointment_for = "Family" =>
               request.body.number_of_members \in 1..10

(***************************************************************************)
(* Properties of the live sync core.                                       *)
(***************************************************************************)
\* the step is ws.onmessage handling frame
Handles(frame) == received' = frame

\* a well-formed message whose type the dispatcher does not know
UnknownType(frame) ==
    /\ frame.kind = "object"
    /\ "type" \in DOMAIN frame.value
    /\ frame.value.type \notin KnownTypes

\* C11: a push message of an unknown type changes no store, neither
\* systemStatus nor the notification, issues no fetch, and leaves App
\* rendering and the connection open.
C11_UnknownTypeIsNoOp ==
    [][\A frame \in Frames :
           Handles(frame) /\ UnknownType(frame) =>
               /\ UNCHANGED <<storeVars, systemStatus, noteVars, fetches,
                              statusFetches>>
               /\ Alive'
               /\ ws' = "open"]_vars

C11_Witness ==
    /\ received \in Frames
    /\ UnknownType(received)
    /\ "data" \in DOMAIN received.value
    /\ ws = "open"

\* text that is not JSON, or JSON that is not an object with a type
Malformed(frame) ==
    \/ frame.kind \in {"text", "null", "number"}
    \/ frame.kind = "object" /\ "type" \notin DOMAIN frame.value

FetchesOnly(store) ==
    /\ fetches' = fetches (+) SetToBag({fetchRequest(store)})
    /\ UNCHANGED statusFetches

\* C13: an applicant_created or applicant_updated push issues exactly one
\* fetch of the applicants, a credential_created or credential_updated push
\* exactly one fetch of the credentials; the step fetches no other store
\* and changes none.
C13_RecordPushRefetchesItsStore ==
    [][\A frame \in Frames :
           /\ Handles(frame) /\ HasType(frame, ApplicantTypes) =>
                  FetchesOnly("applicants")
                      /\ UNCHANGED <<storeVars, systemStatus, noteVars, ws>>
           /\ Handles(frame) /\ HasType(frame, CredentialTypes) =>
                  FetchesOnly("credentials")
                      /\ UNCHANGED <<storeVars, systemStatus, noteVars, ws>>
      ]_vars

C13_Witness ==
    /\ HasType(received, CredentialTypes)
    /\ BagToSet(fetches) = {fetchRequest("credentials")}
    /\ applicants = backend["applicants"]

\* C14: a system_status, system_started or system_stopped push replaces
\* systemStatus with the message's data as it is, keeping no field of the
\* status held before, and changes no collection store and issues no fetch.
C14_StatusPushReplaces ==
    [][\A frame \in Frames :
           Handles(frame) /\ HasType(frame, StatusTypes) =>
               /\ systemStatus' = MessageData(frame)
               /\ UNCHANGED <<storeVars, fetches, statusFetches, noteVars>>
      ]_vars

C14_Witness ==
    /\ HasType(received, {"system_started"})
    /\ systemStatus = [is_running |-> TRUE]
    /\ bookings = <<"r1">>

BookingCompleted ==
    [text |-> <<"Booking completed successfully!">>, type |-> "success"]

\* C15: a booking_completed push, with or without data, issues one fetch of
\* the bookings and shows the success notification; when a fetch of the
\* bookings succeeds, the bookings store is the response's data.
C15_BookingPushRefetches ==
    [][/\ \A frame \in Frames :
              Handles(frame) /\ HasType(frame, BookingTypes) =>
                  /\ FetchesOnly("bookings")
                  /\ message' = BookingCompleted
                  /\ UNCHANGED <<storeVars, systemStatus>>
       /\ \A request \in BagToSet(fetches) :
              request.store = "bookings" /\ fetchResponse(request) =>
                  /\ bookings' = request.data
                  /\ UNCHANGED <<applicants, credentials>>
      ]_vars

C15_Witness ==
    /\ HasType(received, BookingTypes)
    /\ "data" \in DOMAIN received.value
    /\ message = BookingCompleted
    /\ BagIn(fetchRequest("bookings"), fetches)
    /\ bookings = <<"r1">>
    /\ backend["bookings"] = <<>>

NoBookingFetch == \A request \in BagToSet(fetches) : request.store # "bookings"

\* C16: every delivery of a booking_completed frame, a repeated one like
\* the first, issues one fetch of the bookings and no more; with the
\* Gateway's bookings unchanged, whenever no fetch of the bookings is in
\* flight after the initial load the bookings store holds the Gateway's
\* bookings, after two deliveries as after one.
C16_DuplicateIsIdempotent ==
    [][/\ \A frame \in BookingFrames :
              Handles(frame) => FetchesOnly("bookings")
       /\ ws' # "pending" /\ NoBookingFetch' =>
              bookings' = backend'["bookings"]
      ]_vars

C16_Witness ==
    /\ received \in BookingFrames
    /\ bookings = backend["bookings"]
    /\ fetches = SetToBag({fetchRequest("bookings")})
                     (+) SetToBag({fetchRequest("bookings")})

(***************************************************************************)
(* Properties of the Gateway calls and their outcomes.                     *)
(***************************************************************************)
BookingCompletedWith(id) ==
    [text |-> <<"Appointment booking completed! ID: ", id>>, type |-> "success"]

\* C17: when a book-appointment call succeeds, the continuation changes no
\* store, inserts nothing in the bookings and issues no fetch; it shows the
\* notification with the booking id of the response.
C17_NoOptimisticInsert ==
    [][\A request \in BagToSet(bookRequests), id \in BookingIds :
           handleBookAppointmentResponse(request, id) =>
               /\ UNCHANGED <<storeVars, fetches, statusFetches>>
               /\ message' = BookingCompletedWith(id)
      ]_vars

C17_Witness ==
    /\ message = BookingCompletedWith("BK-2")
    /\ bookRequests = EmptyBag
    /\ bookings = <<>>
    /\ backend["bookings"] = <<"r1">>
    /\ fetches = EmptyBag

\* the step is the continuation of a call that failed
Fails ==
    \/ \E request \in BagToSet(fetches) : fetchError(request)
    \/ fetchSystemStatusError
    \/ fetchVisaInfoError
    \/ \E request \in BagToSet(validateRequests) :
           validateCategoryError(request)
    \/ \E request \in BagToSet(bookRequests), detail \in BookErrorDetails :
           handleBookAppointmentError(request, detail)
    \/ \E call \in BagToSet(calls) : callError(call)

\* the calls in flight, by their kind
Pending ==
    <<visaInfoRequests, BagCardinality(validateRequests),
      BagCardinality(bookRequests), BagCardinality(calls),
      BagCardinality(fetches), statusFetches>>

Total(counts) ==
    counts[1] + counts[2] + counts[3] + counts[4] + counts[5] + counts[6]

C19_FailureIsNotified ==
    [][Fails => message'.type = "error" /\ timers' = timers + 1]_vars

(***************************************************************************)
(* Properties of the stored verdict.                                       *)
(***************************************************************************)
\* C20: when a validation completes, the stored verdict is the verdict of
\* the validator for the request's location, category and history, and its
\* is_valid is true exactly when the history is in the category's set of
\* permitted histories.
C20_StoredVerdictFollowsRule ==
    [][\A request \in BagToSet(validateRequests) :
           validateCategoryResponse(request) =>
               /\ categoryValidation' =
                      validate(RuleTable, request.location, request.category,
                               request.schengen_visa_history)
               /\ categoryValidation'.is_valid <=>
                      request.schengen_visa_history
                          \in PermittedHistories(request.category)
      ]_vars

C20_Witness ==
    /\ Rendered
    /\ validateRequests = EmptyBag
    /\ bookingForm.location = "Oran"
    /\ bookingForm.category = "ORAN 2"
    /\ bookingForm.schengen_visa_history = "never"
    /\ ~categoryValidation.is_valid
    /\ categoryValidation.recommended_categories = <<"ORAN 1">>
    /\ message = [text |-> <<"not eligible">>, type |-> "error"]

\* rec holds the members of list that permit history, each once, in the
\* order of list
IsSelection(rec, list, history) ==
    /\ Range(rec) = {c \in Range(list) : history \in PermittedHistories(c)}
    /\ \A i, j \in DOMAIN rec :
           i < j => \E a, b \in DOMAIN list :
                        a < b /\ list[a] = rec[i] /\ list[b] = rec[j]

\* C21: the recommended categories of an invalid verdict are the categories
\* of the request's location that permit the request's history, in the order
\* of the location's list; for Oran, ORAN 1 and rejected the verdict is
\* invalid and the list is empty.
C21_RecommendedCategories ==
    visaInfo # Null =>
        /\ ~categoryValidation.is_valid =>
               IsSelection(categoryValidation.recommended_categories,
                           CategoriesOf(visaInfo, bookingForm.location),
                           bookingForm.schengen_visa_history)
        /\ /\ bookingForm.location = "Oran"
           /\ bookingForm.category = "ORAN 1"
           /\ bookingForm.schengen_visa_history = "rejected"
           => /\ ~categoryValidation.is_valid
              /\ categoryValidation.recommended_categories = <<>>

C21_Witness ==
    /\ visaInfo = WideTable
    /\ bookingForm.location = "Oran"
    /\ bookingForm.category = "ORAN 2"
    /\ bookingForm.schengen_visa_history = "never"
    /\ categoryValidation.recommended_categories = <<"ALG 1", "ORAN 1">>

\* what a store holds
Stored(store) ==
    CASE store = "applicants" -> applicants
      [] store = "credentials" -> credentials
      [] store = "bookings" -> bookings

\* C22: when a GET of a collection completes, its store becomes the data of
\* that response, whichever other calls for the store are in flight or have
\* completed before and whatever the Gateway holds by then: the call that
\* completes last determines the store.
C22_LastCompletedWins ==
    [][\A request \in BagToSet(fetches) :
           fetchResponse(request) =>
               /\ Stored(request.store)' = request.data
               /\ \A store \in Collections \ {request.store} :
                      UNCHANGED Stored(store)
      ]_vars

\* a response read before the Gateway's bookings changed is still in
\* flight, and the store already holds the changed bookings
C22_Witness ==
    /\ bookings = backend["bookings"]
    /\ bookings = <<"r1">>
    /\ BagToSet(fetches) =
           {[store |-> "bookings", served |-> TRUE, data |-> <<>>]}
    /\ ws = "open"

(***************************************************************************)
(* Properties of the push channel.                                         *)
(***************************************************************************)
\* the changes of the channel: constructed or not at mount, opened, closed
ChannelSteps ==
    {<<"pending", "connecting">>, <<"pending", "null">>,
     <<"connecting", "open">>, <<"connecting", "closed">>,
     <<"open", "closed">>}

\* C23: the channel goes from disconnected to connecting to connected to
\* disconnected and is never connected again: once it has closed, or was
\* not constructed, it stays so, and a frame is handled only while the
\* channel is open.
C23_NoReconnect ==
    [][/\ ws' # ws => <<ws, ws'>> \in ChannelSteps
       /\ ws \in {"closed", "null"} => ws' = ws
       /\ received' \in Frames => ws = "open"
      ]_vars

C23_Witness ==
    /\ ws = "closed"
    /\ Alive
    /\ applicants = <<"r1">>
    /\ systemStatus = [is_running |-> TRUE]

(***************************************************************************)
(* Properties of the stores under the flagged calls.                       *)
(***************************************************************************)
\* a step is the completion of a GET of the store, whose data the store takes
CompletesGet(store) ==
    \E request \in BagToSet(fetches) :
        /\ request.store = store
        /\ request.served
        /\ fetches' = fetches (-) SetToBag({request})
        /\ Stored(store)' = request.data

\* C24: a store changes only in a step that completes a GET of its
\* collection, and then the store is the whole response: no call that saves,
\* deletes, sets the primary, tests or books writes to a store.
C24_StoresChangeByGetOnly ==
    [][\A store \in Collections :
           Stored(store)' # Stored(store) => CompletesGet(store)
      ]_vars

\* a delete has succeeded, its record is still stored and its GET in flight
C24_Witness ==
    /\ message.text = <<"Applicant deleted successfully!">>
    /\ applicants = <<"r1">>
    /\ calls = EmptyBag
    /\ BagToSet(fetches) =
           {[store |-> "applicants", served |-> FALSE, data |-> <<>>]}

(***************************************************************************)
(* Properties of the loading flag.                                         *)
(***************************************************************************)
\* C25: at no time are two book-appointment calls in flight at once.
C25_OneBookingInFlight == BagCardinality(bookRequests) <= 1

\* C26: over mounts and teardowns at most one socket is open at a time:
\* no socket of an earlier mount is open or connecting, and the teardown
\* closes the socket that the mount before it constructed.
C26_OneChannel ==
    [][/\ detached' \subseteq {"closed"}
       /\ ws \in {"connecting", "open", "closed"} /\ ws' = "pending"
              => "closed" \in detached'
      ]_vars

\* the socket of a second mount is open
C26_Witness ==
    /\ detached = {"closed"}
    /\ ws = "open"
    /\ bookings = <<"r1">>

(***************************************************************************)
(* Properties of the system status.                                        *)
(***************************************************************************)
\* C27: when App holds the latest status of the Gateway, the response of a
\* GET /bls/status that was answered before the status changed does not
\* replace it: after the response App still holds the latest status.
C27_StaleStatusNeverWins ==
    [][\A data \in StatusPayloads :
           fetchSystemStatusResponse(data) /\ systemStatus = backendStatus
               => systemStatus' = backendStatus'
      ]_vars

\* C28: in every state systemStatus is a record with an is_running field,
\* never undefined or null.
C28_StatusHasIsRunning == "is_running" \in DOMAIN systemStatus

\* C29: a book-appointment call is sent only while systemStatus.is_running
\* is true, by the submit of the form and by "Proceed Anyway" alike.
C29_BookOnlyWhileRunning == submitted.book > 0 => IsRunning

\* the flagged calls in flight
Flagged == BagCardinality(calls) + BagCardinality(bookRequests)

\* C30: loading is true exactly while a flagged call is in flight: the
\* completion of one call does not clear it while another is in flight.
C30_LoadingWhileInFlight == loading <=> Flagged > 0

(***************************************************************************)
(* Properties of the calls of the management components.                   *)
(***************************************************************************)
\* the calls of ApplicantManagement and CredentialsManagement in flight
RecordCalls == {call \in BagToSet(calls) : call.store \in ManagementTabs}

\* C31: when a save, delete, set-primary or test of a record succeeds, one
\* GET of its collection is sent and no other, and after a save the form is
\* closed and blank; when it fails, no GET is sent, no store changes and the
\* form keeps its data and its edit target.
C31_RefetchOnSuccessOnly ==
    [][\A call \in RecordCalls :
           /\ (\E answer \in Answers : callResponse(call, answer)) =>
                  /\ fetches' = fetches (+) SetToBag({fetchRequest(call.store)})
                  /\ call.kind = "save" => form' = InitForm
                  /\ call.kind # "save" => form' = form
                  /\ UNCHANGED <<storeVars, statusFetches>>
           /\ callError(call) =>
                  UNCHANGED <<fetches, statusFetches, storeVars, form>>
      ]_vars

\* the update of a credential has failed: the form is open as it was
C31_Witness ==
    /\ message = [text |-> <<"Error saving credential">>, type |-> "error"]
    /\ form = [showForm |-> TRUE, editing |-> "r1", formData |-> "typed"]
    /\ credentials = <<"r1">>
    /\ calls = EmptyBag
    /\ fetches = EmptyBag

(***************************************************************************)
(* Properties of the inputs that are not eligibility inputs.               *)
(***************************************************************************)
\* a step is the onChange of an input that is not an eligibility input
ChangesOtherField ==
    \/ \E field \in DraftFields :
           \E value \in FieldValues(field) : setBookingField(field, value)
    \/ \E value \in {"Individual", "Family"} : setAppointmentFor(value)
    \/ \E text \in FieldInputs : setNumberOfMembers(text)

\* the eligibility inputs of the draft
Selection ==
    <<bookingForm.location, bookingForm.category,
      bookingForm.schengen_visa_history>>

\* C32: a change of visa_type, visa_sub_type, appointment_for,
\* number_of_members, has_premium_lounge or notes leaves location, category,
\* Schengen history and the stored verdict as they were and sends no
\* validation request and no other call.
C32_OtherFieldsChangeNothing ==
    [][ChangesOtherField =>
           /\ Selection' = Selection
           /\ UNCHANGED <<categoryValidation, showValidationModal>>
           /\ UNCHANGED <<visaInfoRequests, validateRequests, bookRequests,
                          calls, fetches, statusFetches>>
      ]_vars

\* the draft is away from its initial selection, holds an invalid verdict
\* and has had its other inputs changed
C32_Witness ==
    /\ Selection = <<"Algiers", "ALG 1", "rejected">>
    /\ ~categoryValidation.is_valid
    /\ bookingForm.notes = "note"
    /\ bookingForm.has_premium_lounge
    /\ bookingForm.visa_type = "Schengen Visa"
    /\ bookingForm.appointment_for = "Family"
    /\ bookingForm.number_of_members = 7

(***************************************************************************)
(* Properties of the notification.                                         *)
(***************************************************************************)
\* C33: a notification is cleared only by its own timer: timers expire in
\* the order they were started, so while a timer is pending the timer of
\* the last notification is pending, and that notification is still shown.
C33_ClearedByOwnTimer == timers > 0 => message # NoMessage

====
